---- MODULE Spec2Model ----
(***************************************************************************)
(* A model of bencode.hpp: the recursive-descent decoder (copy and view    *)
(* mode, random-access and sequential string readers), the encoder over    *)
(* the type-erased value, and the incremental list and dict encoders.      *)
(*                                                                         *)
(* Bytes are their ASCII codes, an input is a sequence of bytes and a      *)
(* cursor is a 1-based index into it (end is Len + 1).  The 64-bit types   *)
(* (integer = long long, std::size_t, std::ptrdiff_t) are four 16-bit      *)
(* limbs, least significant first, so that arithmetic is exactly the       *)
(* arithmetic modulo 2^64 of the machine.                                  *)
(***************************************************************************)
EXTENDS Integers, Sequences, FiniteSets, TLC

VARIABLES
  pc,        \* which call of the library the caller has reached
  hasSV,     \* build: BENCODE_HAS_STRING_VIEW is defined
  input,     \* the bytes handed to decode
  src,       \* what the caller made the input from
  call,      \* the decode entry point that was called
  dres,      \* how the decode call ended
  eofbit,    \* std::ios_base::eofbit of the stream handed to decode
  val,       \* the value handed to encode
  os,        \* the output sink (std::ostream)
  before,    \* the sink's content when the encode call started
  eres,      \* how the encode call ended
  sret,      \* the std::string returned by encode(T&&)
  stack,     \* the list_encoder / dict_encoder objects in scope, innermost last
  ops,       \* constructor and add() calls made on hand-driven encoders
  left       \* encoders destroyed without end() having been called

vars == <<pc, hasSV, input, src, call, dres, eofbit, val, os, before, eres, sret,
          stack, ops, left>>

----------------------------------------------------------------------------
(* Bytes *)

ch_i == 105
ch_l == 108
ch_d == 100
ch_e == 101
ch_minus == 45
ch_colon == 58
ch_0 == 48
ch_9 == 57
\* payload bytes, letters that are no token of the grammar: 'a', 'b', 'x'
ch_a == ch_d - 3
ch_b == ch_d - 2
ch_x == ch_l + 12

isdigit(b) == b >= ch_0 /\ b <= ch_9

----------------------------------------------------------------------------
(* 64-bit words as four 16-bit limbs, least significant first *)

Base == 256 * 256

Zero == <<0, 0, 0, 0>>
IntMax == <<Base - 1, Base - 1, Base - 1, (Base \div 2) - 1>>
IntMin == <<0, 0, 0, Base \div 2>>

\* what a 64-bit object holds (the decoder's loops test it of their counter,
\* which has TLC compute the counter in each round and not all at the end)
IsWord(x) == \A k \in 1..4 : x[k] \in 0..(Base - 1)

\* a number below 2^31 as a word
Word(n) == <<n % Base, n \div Base, 0, 0>>

\* the top bit: the sign of the word read as long long or std::ptrdiff_t
IsNeg(x) == x[4] >= Base \div 2

\* x * m for a small m, modulo 2^64, with what was carried out of the top
UMul(x, m) ==
  LET t1 == x[1] * m
      t2 == x[2] * m + (t1 \div Base)
      t3 == x[3] * m + (t2 \div Base)
      t4 == x[4] * m + (t3 \div Base)
  IN  [v |-> <<t1 % Base, t2 % Base, t3 % Base, t4 % Base>>, carry |-> t4 \div Base]

\* x + a for a small a of either sign, modulo 2^64
UAdd(x, a) ==
  LET t1 == x[1] + a
      t2 == x[2] + (t1 \div Base)
      t3 == x[3] + (t2 \div Base)
      t4 == x[4] + (t3 \div Base)
  IN  <<t1 % Base, t2 % Base, t3 % Base, t4 % Base>>

\* two's complement negation
Negate(x) == UAdd(<<Base - 1 - x[1], Base - 1 - x[2], Base - 1 - x[3], Base - 1 - x[4]>>, 1)

\* long long arithmetic: the wrapped result and whether the mathematical
\* result left the range (undefined behaviour in the source language)
SMul(x, m) ==
  LET r == UMul(IF IsNeg(x) THEN Negate(x) ELSE x, m)
  IN  [v   |-> UMul(x, m).v,
       ovf |-> IF IsNeg(x) THEN r.carry > 0 \/ (IsNeg(r.v) /\ r.v # IntMin)
                           ELSE r.carry > 0 \/ IsNeg(r.v)]

SAdd(x, a) == [v |-> UAdd(x, a), ovf |-> ~IsNeg(x) /\ IsNeg(UAdd(x, a))]

SSub(x, a) == [v |-> UAdd(x, 0 - a), ovf |-> IsNeg(x) /\ ~IsNeg(UAdd(x, 0 - a))]

SNeg(x) == [v |-> Negate(x), ovf |-> x = IntMin]

\* whether a word read as unsigned is below 2^31, and then its value
Fits(x) == x[4] = 0 /\ x[3] = 0 /\ x[2] < Base \div 2
Small(x) == x[2] * Base + x[1]

\* n < x for a small n and x read as signed, as unsigned
SLess(n, x) == IF IsNeg(x) THEN FALSE ELSE IF Fits(x) THEN n < Small(x) ELSE TRUE
ULess(n, x) == IF Fits(x) THEN n < Small(x) ELSE TRUE

\* decimal formatting, as operator<< formats an integer
DivMod10(x) ==
  LET c4 == x[4]
      c3 == (c4 % 10) * Base + x[3]
      c2 == (c3 % 10) * Base + x[2]
      c1 == (c2 % 10) * Base + x[1]
  IN  [q |-> <<c1 \div 10, c2 \div 10, c3 \div 10, c4 \div 10>>, r |-> c1 % 10]

RECURSIVE UDigits(_)
UDigits(x) == IF x = Zero THEN <<>> ELSE Append(UDigits(DivMod10(x).q), ch_0 + DivMod10(x).r)

UDec(x) == IF x = Zero THEN <<ch_0>> ELSE UDigits(x)
SDec(x) == IF IsNeg(x) THEN <<ch_minus>> \o UDec(Negate(x)) ELSE UDec(x)

----------------------------------------------------------------------------
(* Values: BENCODE_ANY_NS::any holding one of the library's types.  Each   *)
(* type has its own field, so that values of different types compare.      *)

Integer(x) == [t |-> "integer", i |-> x]
Str(x) == [t |-> "string", s |-> x]
StrView(x) == [t |-> "string_view", s |-> x]
List(x) == [t |-> "list", items |-> x]
Dict(m) == [t |-> "dict", entries |-> m]
DictView(m) == [t |-> "dict_view", entries |-> m]
EmptyAny == [t |-> "empty", v |-> <<>>]
NoVal == [t |-> "none", v |-> <<>>]

\* std::less<std::string>: lexicographic on the bytes
RECURSIVE LexLess(_, _)
LexLess(a, b) ==
  IF b = <<>> THEN FALSE
  ELSE IF a = <<>> THEN TRUE
  ELSE IF a[1] # b[1] THEN a[1] < b[1]
  ELSE LexLess(Tail(a), Tail(b))

\* std::map as the sequence of its <<key, value>> entries in key order
HasKey(m, k) == \E j \in 1..Len(m) : m[j][1] = k

Emplace(m, k, v) ==
  LET n == Cardinality({j \in 1..Len(m) : LexLess(m[j][1], k)})
  IN  SubSeq(m, 1, n) \o << <<k, v>> >> \o SubSeq(m, n + 1, Len(m))

----------------------------------------------------------------------------
(* The decoder.  c is the call's context: the input, the memory after it,  *)
(* the template parameter View, the iterator category and the build.       *)

EndOfString == "unexpected end of string"
ExpectedE == "expected 'e'"
ExpectedColon == "expected ':'"
ExpectedStringToken == "expected string token"
UnexpectedType == "unexpected type"
DuplicatedKey == "duplicated key in dict: "

End(c) == Len(c.in) + 1
Mapped(c, p) == p >= 1 /\ p <= Len(c.in) + Len(c.tail)
Past(c, p) == p > Len(c.in)
At(c, p) == IF p <= Len(c.in) THEN c.in[p] ELSE c.tail[p - Len(c.in)]

\* how a call ends: st is "return", the exception's class, or what the
\* undefined behaviour came to ("trap": the overflow trapped, "fault": a read
\* of unmapped memory, "wild": a view and a cursor outside the buffer);
\* oob records that a byte at or beyond end was read
Return(v, p) ==
  [st |-> "return", val |-> v, pos |-> p, what |-> "", key |-> <<>>, oob |-> FALSE]
Throw(ex, what, key, p) ==
  [st |-> ex, val |-> NoVal, pos |-> p, what |-> what, key |-> key, oob |-> FALSE]
InvalidArgument(what, p) == Throw("invalid_argument", what, <<>>, p)
Undefined(how, p) == Throw(how, "", <<>>, p)
Mark(r, o) == [r EXCEPT !.oob = @ \/ o]

RECURSIVE int_digits(_, _, _, _)
int_digits(c, p, value, positive) ==
  IF p = End(c) THEN InvalidArgument(EndOfString, p)
  ELSE IF ~Mapped(c, p) THEN Undefined("fault", p)
  ELSE Mark(
    IF isdigit(At(c, p)) THEN
      LET m == SMul(value, 10)
          a == SAdd(m.v, At(c, p))
          s == SSub(a.v, ch_0)
      IN  IF (m.ovf \/ a.ovf \/ s.ovf) /\ c.trapv THEN Undefined("trap", p)
          ELSE int_digits(c, p + 1, s.v, positive)
    ELSE IF At(c, p) # ch_e THEN InvalidArgument(ExpectedE, p)
    ELSE IF positive THEN Return(Integer(value), p + 1)
    ELSE IF c.trapv /\ SNeg(value).ovf THEN Undefined("trap", p + 1)
    ELSE Return(Integer(SNeg(value).v), p + 1),
    Past(c, p))

decode_int_real(c, p) ==
  LET p1 == p + 1
  IN  IF ~Mapped(c, p1) THEN Mark(Undefined("fault", p1), TRUE)
      ELSE Mark(int_digits(c, IF At(c, p1) = ch_minus THEN p1 + 1 ELSE p1, Zero,
                           At(c, p1) # ch_minus),
                Past(c, p1))

decode_int(c, p) == decode_int_real(c, p)

\* str_reader<false>, std::forward_iterator_tag
call_forward(c, p, len) ==
  IF SLess(End(c) - p, len) THEN InvalidArgument(EndOfString, p)
  ELSE IF IsNeg(len) THEN Throw("length_error", "", <<>>, p)
  ELSE Return(Str(SubSeq(c.in, p, p + Small(len) - 1)), p + Small(len))

\* str_reader<false>, std::input_iterator_tag
RECURSIVE input_loop(_, _, _, _, _)
input_loop(c, p, i, len, value) ==
  IF ~ULess(i, len) THEN Return(Str(value), p)
  ELSE IF p = End(c) THEN InvalidArgument(EndOfString, p)
  ELSE IF ~Mapped(c, p) THEN Undefined("fault", p)
  ELSE Mark(input_loop(c, p + 1, i + 1, len, Append(value, At(c, p))), Past(c, p))

call_input(c, p, len) ==
  IF IsNeg(len) THEN Throw("length_error", "", <<>>, p)
  ELSE input_loop(c, p, 0, len, <<>>)

\* str_reader<true>
str_reader_view(c, p, len) ==
  IF SLess(End(c) - p, len) THEN InvalidArgument(EndOfString, p)
  ELSE IF IsNeg(len) THEN Undefined("wild", p)
  ELSE Return(StrView(SubSeq(c.in, p, p + Small(len) - 1)), p + Small(len))

str_reader(c, p, len) ==
  IF c.View THEN str_reader_view(c, p, len)
  ELSE IF c.cat = "forward" THEN call_forward(c, p, len)
  ELSE call_input(c, p, len)

RECURSIVE str_len(_, _, _)
str_len(c, p, len) ==
  IF p = End(c) THEN InvalidArgument(EndOfString, p)
  ELSE IF ~Mapped(c, p) THEN Undefined("fault", p)
  ELSE Mark(
    IF isdigit(At(c, p)) /\ IsWord(len) THEN
      str_len(c, p + 1, UAdd(UAdd(UMul(len, 10).v, At(c, p)), 0 - ch_0))
    ELSE IF At(c, p) # ch_colon THEN InvalidArgument(ExpectedColon, p)
    ELSE str_reader(c, p + 1, len),
    Past(c, p))

decode_str(c, p) == str_len(c, p, Zero)

RECURSIVE decode_data(_, _)
RECURSIVE list_items(_, _, _)
RECURSIVE dict_items(_, _, _)

list_items(c, p, value) ==
  IF p = End(c) THEN InvalidArgument(EndOfString, p)
  ELSE IF ~Mapped(c, p) THEN Undefined("fault", p)
  ELSE Mark(
    IF At(c, p) # ch_e THEN
      LET r == decode_data(c, p)
      IN  IF r.st # "return" THEN r
          ELSE Mark(list_items(c, r.pos, Append(value, r.val)), r.oob)
    ELSE Return(List(value), p + 1),
    Past(c, p))

decode_list(c, p) == list_items(c, p + 1, <<>>)

dict_items(c, p, value) ==
  IF p = End(c) THEN InvalidArgument(EndOfString, p)
  ELSE IF ~Mapped(c, p) THEN Undefined("fault", p)
  ELSE Mark(
    IF At(c, p) # ch_e THEN
      IF ~isdigit(At(c, p)) THEN InvalidArgument(ExpectedStringToken, p)
      ELSE
        LET k == decode_str(c, p)
        IN  IF k.st # "return" THEN k
            ELSE
              LET v == decode_data(c, k.pos)
              IN  IF v.st # "return" THEN Mark(v, k.oob)
                  ELSE IF HasKey(value, k.val.s)
                    THEN Mark(Throw("invalid_argument", DuplicatedKey, k.val.s, v.pos),
                              k.oob \/ v.oob)
                  ELSE Mark(dict_items(c, v.pos, Emplace(value, k.val.s, v.val)),
                            k.oob \/ v.oob)
    ELSE Return(IF c.View THEN DictView(value) ELSE Dict(value), p + 1),
    Past(c, p))

decode_dict(c, p) == dict_items(c, p + 1, <<>>)

\* decode_data without its test for the empty range, the variant against
\* which the top-level dispatch property is shown to depend on that test
decode_data_unguarded(c, p) ==
  IF ~Mapped(c, p) THEN Undefined("fault", p)
  ELSE Mark(
    IF At(c, p) = ch_i THEN decode_int(c, p)
    ELSE IF At(c, p) = ch_l THEN decode_list(c, p)
    ELSE IF At(c, p) = ch_d THEN decode_dict(c, p)
    ELSE IF isdigit(At(c, p)) THEN decode_str(c, p)
    ELSE InvalidArgument(UnexpectedType, p),
    Past(c, p))

decode_data(c, p) ==
  IF p = End(c) THEN Return(EmptyAny, p)
  ELSE IF ~Mapped(c, p) THEN Undefined("fault", p)
  ELSE Mark(
    IF At(c, p) = ch_i THEN decode_int(c, p)
    ELSE IF At(c, p) = ch_l THEN decode_list(c, p)
    ELSE IF At(c, p) = ch_d THEN decode_dict(c, p)
    ELSE IF isdigit(At(c, p)) THEN decode_str(c, p)
    ELSE InvalidArgument(UnexpectedType, p),
    Past(c, p))

----------------------------------------------------------------------------
(* The encoder.  An encode call ends with the sink's content, "return" or  *)
(* the exception's class, and the number of list_encoder / dict_encoder    *)
(* objects it constructed and destroyed without end() having been called.  *)

Wrote(o) == [os |-> o, st |-> "return", what |-> "", unended |-> 0]
Failed(o, what) == [os |-> o, st |-> "invalid_argument", what |-> what, unended |-> 0]

encode_integer(o, value) == o \o <<ch_i>> \o SDec(value) \o <<ch_e>>
encode_string(o, value) == o \o UDec(Word(Len(value))) \o <<ch_colon>> \o value

list_encoder(o) == Append(o, ch_l)
dict_encoder(o) == Append(o, ch_d)
encoder_end(o) == Append(o, ch_e)

RECURSIVE encode_any(_, _, _)
RECURSIVE list_adds(_, _, _, _)
RECURSIVE dict_adds(_, _, _, _)

list_encoder_add(sv, o, value) == encode_any(sv, o, value)
dict_encoder_add(sv, o, key, value) == encode_any(sv, encode_string(o, key), value)

list_adds(sv, o, value, n) ==
  IF n > Len(value) THEN Wrote(o)
  ELSE LET r == list_encoder_add(sv, o, value[n])
       IN  IF r.st # "return" THEN r ELSE list_adds(sv, r.os, value, n + 1)

dict_adds(sv, o, value, n) ==
  IF n > Len(value) THEN Wrote(o)
  ELSE LET r == dict_encoder_add(sv, o, value[n][1], value[n][2])
       IN  IF r.st # "return" THEN r ELSE dict_adds(sv, r.os, value, n + 1)

\* encode(std::ostream&, const std::vector<T>&), encode_list
encode_vector(sv, o, value) ==
  LET r == list_adds(sv, list_encoder(o), value, 1)
  IN  IF r.st = "return" THEN [r EXCEPT !.os = encoder_end(@)]
      ELSE [r EXCEPT !.unended = @ + 1]

\* encode(std::ostream&, const std::map<K, T>&), encode_dict
encode_map(sv, o, value) ==
  LET r == dict_adds(sv, dict_encoder(o), value, 1)
  IN  IF r.st = "return" THEN [r EXCEPT !.os = encoder_end(@)]
      ELSE [r EXCEPT !.unended = @ + 1]

encode_any(sv, o, value) ==
  IF value.t = "integer" THEN Wrote(encode_integer(o, value.i))
  ELSE IF value.t = "string" THEN Wrote(encode_string(o, value.s))
  ELSE IF value.t = "list" THEN encode_vector(sv, o, value.items)
  ELSE IF value.t = "dict" THEN encode_map(sv, o, value.entries)
  ELSE IF sv /\ value.t = "string_view" THEN Wrote(encode_string(o, value.s))
  ELSE IF sv /\ value.t = "dict_view" THEN encode_map(sv, o, value.entries)
  ELSE Failed(o, UnexpectedType)

----------------------------------------------------------------------------
(* What the caller hands to the library *)

MaxRaw == 3
MaxElems == 2
MaxPairs == 3
MaxOps == 3
MaxNest == 2

Seqs(S, n) == UNION {[1..k -> S] : k \in 0..n}
Dig(s) == [k \in 1..Len(s) |-> ch_0 + s[k]]

Other == [t |-> "other", v |-> <<>>]

Keys == {<<>>, <<ch_a>>, <<ch_b>>}
KeySeqs == {ks \in Seqs(Keys, MaxElems) : \A j \in 1..(Len(ks) - 1) : LexLess(ks[j], ks[j + 1])}

Lists(S) == {List(s) : s \in Seqs(S, MaxElems)}
Maps(S) == UNION {{[j \in 1..Len(ks) |-> <<ks[j], f[j]>>] : f \in [1..Len(ks) -> S]} : ks \in KeySeqs}
Dicts(S) == {Dict(m) : m \in Maps(S)}

\* values of the data model in the owned representation, dict keys unique
Integers == {Zero, Negate(Word(13)), UAdd(IntMax, 0 - ch_0), IntMax, IntMin}
Strings == {<<>>, <<ch_a>>, <<ch_0 + 1, ch_colon, ch_e>>}
Leaves == {Integer(x) : x \in Integers} \cup {Str(x) : x \in Strings}
Inner == {Integer(Word(1)), Str(<<ch_b>>), List(<<>>), Dict(<<>>),
          List(<<Str(<<ch_a>>)>>), Dict(<< <<<<ch_a>>, Integer(Zero)>> >>)}
Elems == {Integer(Zero), Integer(Negate(Word(13))), Integer(IntMin)} \cup {Str(x) : x \in Strings}
Values == Leaves \cup Lists(Elems) \cup Dicts(Elems) \cup Lists(Inner) \cup Dicts(Inner)

\* values that hold a borrowed string or dict, an empty any or any other type
Odd == {Integer(Word(1)), StrView(<<ch_a>>), Other, EmptyAny, List(<<Other>>),
        DictView(<< <<<<ch_a>>, StrView(<<>>)>> >>)}
OddValues == Lists(Odd) \cup Dicts(Odd) \cup {DictView(m) : m \in Maps(Odd)} \cup Odd

\* token trees: dicts whose entries come in any order, keys repeated or not
WireKeys == {<<ch_a>>, <<ch_b>>}
WireVals == {Integer(Word(1)), Str(<<ch_x>>)}
WireDicts == {Dict(m) : m \in Seqs(WireKeys \X WireVals, MaxPairs)}
WireNested == {Dict(m) : m \in Seqs(WireKeys \X WireVals, 2)}
WireLarge == {Dict(<< <<k, Integer(x)>>, <<h, Integer(Zero)>> >>) :
                k \in WireKeys, h \in WireKeys, x \in {IntMax, IntMin}}
WireTrees == WireDicts \cup WireLarge \cup {List(<<w>>) : w \in WireNested}
               \cup {Dict(<< <<<<ch_b>>, w>>, <<<<ch_a>>, Integer(Zero)>> >>) : w \in WireNested}

\* the bytes of a value or token tree
Wire(w) == encode_any(TRUE, <<>>, w).os

\* integer literals 'i' '-'? digit* 'e'
IntDigits ==
  {<<>>, Dig(<<0>>), Dig(<<0, 0>>), Dig(<<0, 3>>), Dig(<<3>>), Dig(<<4, 2>>),
   Dig(<<9,2,2,3,3,7,2,0,3,6,8,5,4,7,7,5,7,5,9>>),
   Dig(<<9,2,2,3,3,7,2,0,3,6,8,5,4,7,7,5,7,6,0>>),
   Dig(<<9,2,2,3,3,7,2,0,3,6,8,5,4,7,7,5,8,0,7>>),
   Dig(<<9,2,2,3,3,7,2,0,3,6,8,5,4,7,7,5,8,0,8>>),
   Dig(<<9,2,2,3,3,7,2,0,3,6,8,5,4,7,7,5,8,0,9>>),
   Dig(<<1,8,4,4,6,7,4,4,0,7,3,7,0,9,5,5,1,6,1,6>>),
   Dig(<<1,8,4,4,6,7,4,4,0,7,3,7,0,9,5,5,1,6,2,1>>)}
IntLiteral(neg, digits) ==
  <<ch_i>> \o (IF neg THEN <<ch_minus>> ELSE <<>>) \o digits \o <<ch_e>>

\* string tokens digit+ ':' rest
LenDigits ==
  {Dig(<<0>>), Dig(<<1>>), Dig(<<2>>), Dig(<<3>>), Dig(<<5>>), Dig(<<0, 1>>),
   Dig(<<4,2,9,4,9,6,7,2,9,7>>),
   Dig(<<9,2,2,3,3,7,2,0,3,6,8,5,4,7,7,5,8,0,7>>),
   Dig(<<9,2,2,3,3,7,2,0,3,6,8,5,4,7,7,5,8,0,8>>),
   Dig(<<1,8,4,4,6,7,4,4,0,7,3,7,0,9,5,5,1,6,1,5>>),
   Dig(<<1,8,4,4,6,7,4,4,0,7,3,7,0,9,5,5,1,6,1,6>>),
   Dig(<<1,8,4,4,6,7,4,4,0,7,3,7,0,9,5,5,1,6,1,7>>),
   Dig(<<1,8,4,4,6,7,4,4,0,7,3,7,0,9,5,5,1,6,1,8>>)}
Rests == {<<>>, <<ch_a>>, <<ch_a, ch_b>>, <<ch_a, ch_b, ch_e>>}
StrToken(digits, rest) == digits \o <<ch_colon>> \o rest

\* encodings cut short
CutTrees ==
  {Integer(Zero), Integer(Negate(Word(13))), Integer(IntMax), Str(<<ch_a, ch_b>>),
   List(<<>>), List(<<Integer(Word(42)), Str(<<ch_a>>)>>), List(<<List(<<>>), Integer(Zero)>>),
   Dict(<<>>), Dict(<< <<<<ch_a>>, Integer(Negate(Word(1)))>>, <<<<ch_b>>, Str(<<ch_x>>)>> >>),
   Dict(<< <<<<ch_a>>, List(<<Integer(Word(1))>>)>> >>),
   List(<<Dict(<< <<<<ch_a>>, Integer(Word(7))>> >>)>>)}

RawAlphabet == {ch_i, ch_l, ch_d, ch_e, ch_colon, ch_0 + 1, ch_a}

NoSrc == [k |-> "none", neg |-> FALSE, digits |-> <<>>, rest |-> <<>>, w |-> NoVal, n |-> 0]

Inputs ==
  {[b |-> x, s |-> [NoSrc EXCEPT !.k = "raw"]] : x \in Seqs(RawAlphabet, MaxRaw)}
  \cup {[b |-> IntLiteral(neg, x), s |-> [NoSrc EXCEPT !.k = "int", !.neg = neg, !.digits = x]] :
          neg \in BOOLEAN, x \in IntDigits}
  \cup {[b |-> StrToken(x, r), s |-> [NoSrc EXCEPT !.k = "str", !.digits = x, !.rest = r]] :
          x \in LenDigits, r \in Rests}
  \cup UNION {{[b |-> SubSeq(Wire(w), 1, n), s |-> [NoSrc EXCEPT !.k = "cut", !.w = w, !.n = n]] :
                 n \in 1..(Len(Wire(w)) - 1)} : w \in CutTrees}
  \cup {[b |-> Wire(w), s |-> [NoSrc EXCEPT !.k = "wire", !.w = w]] : w \in WireTrees}

\* the arguments of the variadic encode_list and encode_dict
ListArgs == Seqs(Odd, MaxElems)
DictArgs == Seqs(WireKeys \X {Integer(Word(1)), StrView(<<ch_a>>), Other}, MaxElems)

\* what a read past the end of the buffer finds there
Tails == {<<>>, <<0>>, <<ch_minus, ch_9, ch_e>>}

----------------------------------------------------------------------------
(* The calls *)

NoRes == [st |-> "none", val |-> NoVal, pos |-> 0, what |-> "", key |-> <<>>, oob |-> FALSE]
NoEnc == [os |-> <<>>, st |-> "none", what |-> "", unended |-> 0]

Init ==
  /\ pc = "idle"
  /\ hasSV \in BOOLEAN
  /\ input = <<>> /\ src = NoSrc /\ call = "" /\ dres = NoRes /\ eofbit = FALSE
  /\ val = NoVal /\ os = <<>> /\ before = <<>> /\ eres = NoEnc /\ sret = <<>>
  /\ stack = <<>> /\ ops = 0 /\ left = 0

\* the caller's input: any of Inputs, or the bytes an encode call just wrote
Candidates == IF pc = "idle" THEN Inputs
              ELSE IF pc = "encoded" /\ eres.st = "return"
                THEN {[b |-> os, s |-> [NoSrc EXCEPT !.k = "sink", !.w = val]]}
              ELSE {}

\* How a decode call can end.  The call has undefined behaviour when it reads
\* past the end of the buffer or overflows a long long: what it does then
\* depends on the memory after the buffer and on the build, and each is a way
\* it can end.  A call that does neither in the strictest setting (nothing
\* mapped after the buffer, overflow traps) ends the same way in all of them.
Outcomes(in, view, cat) ==
  LET c(mem, trap) == [in |-> in, tail |-> mem, View |-> view, cat |-> cat, trapv |-> trap]
      strict == decode_data(c(<<>>, TRUE), 1)
  IN  IF strict.st \in {"trap", "fault"}
        THEN {decode_data(c(mem, trap), 1) : mem \in Tails, trap \in BOOLEAN}
        ELSE {strict}

\* decode(T &begin, T end), decode(const T &begin, T end), decode(const string_view &)
Decode ==
  \E in \in Candidates :
    \E result \in Outcomes(in.b, FALSE, "forward") :
      /\ input' = in.b /\ src' = in.s /\ call' = "decode"
      /\ dres' = result
      /\ pc' = "decoded"
      /\ UNCHANGED <<hasSV, eofbit, val, os, before, eres, sret, stack, ops, left>>

\* decode(std::istream &s, eof_behavior e)
DecodeStream ==
  \E in \in Candidates :
    \E result \in Outcomes(in.b, FALSE, "input"), e \in {"check_eof", "no_check_eof"} :
      /\ input' = in.b /\ src' = in.s /\ call' = "decode_stream"
      /\ dres' = result
      /\ eofbit' = (result.st = "return" /\ e = "check_eof" /\ result.pos = Len(in.b) + 1)
      /\ pc' = "decoded"
      /\ UNCHANGED <<hasSV, val, os, before, eres, sret, stack, ops, left>>

\* decode_view(T &begin, T end), decode_view(const T &begin, T end),
\* decode_view(const string_view &)
DecodeView ==
  \E in \in Candidates :
    \E result \in Outcomes(in.b, TRUE, "forward") :
      /\ input' = in.b /\ src' = in.s /\ call' = "decode_view"
      /\ dres' = result
      /\ pc' = "decoded"
      /\ UNCHANGED <<hasSV, eofbit, val, os, before, eres, sret, stack, ops, left>>

\* encode(std::ostream &os, const any &value): of a value the caller built, or
\* of the tree a decode call returned
EncodeArgs == IF pc = "idle" THEN Values \cup OddValues
              ELSE IF pc = "decoded" /\ dres.st = "return" THEN {dres.val}
              ELSE {}

Encode ==
  \E value \in EncodeArgs :
    LET r == encode_any(hasSV, os, value)
    IN  /\ val' = value /\ before' = os
        /\ os' = r.os /\ eres' = r /\ left' = r.unended
        /\ pc' = IF pc = "idle" THEN "encoded" ELSE "reencoded"
        /\ UNCHANGED <<hasSV, input, src, call, dres, eofbit, sret, stack, ops>>

\* std::string encode(T &&t)
EncodeToString ==
  /\ pc = "idle"
  /\ \E value \in Values \cup OddValues :
    LET r == encode_any(hasSV, <<>>, value)
    IN  /\ val' = value /\ before' = os
        /\ eres' = [r EXCEPT !.os = os] /\ left' = r.unended
        /\ sret' = IF r.st = "return" THEN r.os ELSE sret
        /\ pc' = "returned"
        /\ UNCHANGED <<hasSV, input, src, call, dres, eofbit, os, stack, ops>>

\* encode_list(std::ostream &os, T &&...t)
EncodeList ==
  /\ pc = "idle"
  /\ \E items \in ListArgs :
    LET r == encode_vector(hasSV, os, items)
    IN  /\ val' = List(items) /\ before' = os
        /\ os' = r.os /\ eres' = r /\ left' = r.unended
        /\ pc' = "built"
        /\ UNCHANGED <<hasSV, input, src, call, dres, eofbit, sret, stack, ops>>

\* encode_dict(std::ostream &os, T &&...t)
EncodeDict ==
  /\ pc = "idle"
  /\ \E items \in DictArgs :
    LET r == encode_map(hasSV, os, items)
    IN  /\ val' = Dict(items) /\ before' = os
        /\ os' = r.os /\ eres' = r /\ left' = r.unended
        /\ pc' = "built"
        /\ UNCHANGED <<hasSV, input, src, call, dres, eofbit, sret, stack, ops>>

\* list_encoder::list_encoder(std::ostream &os)
ListEncoder ==
  /\ pc \in {"idle", "building"} /\ ops < MaxOps /\ Len(stack) < MaxNest
  /\ os' = list_encoder(os)
  /\ stack' = Append(stack, "list_encoder")
  /\ ops' = ops + 1 /\ pc' = "building"
  /\ UNCHANGED <<hasSV, input, src, call, dres, eofbit, val, before, eres, sret, left>>

\* dict_encoder::dict_encoder(std::ostream &os)
DictEncoder ==
  /\ pc \in {"idle", "building"} /\ ops < MaxOps /\ Len(stack) < MaxNest
  /\ os' = dict_encoder(os)
  /\ stack' = Append(stack, "dict_encoder")
  /\ ops' = ops + 1 /\ pc' = "building"
  /\ UNCHANGED <<hasSV, input, src, call, dres, eofbit, val, before, eres, sret, left>>

\* an add() that returns leaves the encoders as they are; one that throws
\* unwinds the caller's scope, and neither class has a destructor
Added(value, r) ==
  /\ val' = value /\ before' = os /\ os' = r.os /\ eres' = r
  /\ ops' = ops + 1
  /\ IF r.st = "return"
       THEN /\ pc' = "building" /\ UNCHANGED <<stack, left>>
       ELSE /\ pc' = "built" /\ stack' = <<>> /\ left' = left + r.unended + Len(stack)
  /\ UNCHANGED <<hasSV, input, src, call, dres, eofbit, sret>>

\* list_encoder::add(T &&value)
ListAdd ==
  /\ pc = "building" /\ ops < MaxOps
  /\ stack # <<>> /\ stack[Len(stack)] = "list_encoder"
  /\ \E value \in Odd :
      Added(value, list_encoder_add(hasSV, os, value))

\* dict_encoder::add(const string_view &key, T &&value)
DictAdd ==
  /\ pc = "building" /\ ops < MaxOps
  /\ stack # <<>> /\ stack[Len(stack)] = "dict_encoder"
  /\ \E key \in WireKeys, value \in Odd :
      Added(value, dict_encoder_add(hasSV, os, key, value))

\* list_encoder::end(), dict_encoder::end(), and the encoder going out of scope
EncoderEnd ==
  /\ pc = "building" /\ stack # <<>>
  /\ os' = encoder_end(os)
  /\ stack' = SubSeq(stack, 1, Len(stack) - 1)
  /\ pc' = IF Len(stack) = 1 THEN "built" ELSE "building"
  /\ UNCHANGED <<hasSV, input, src, call, dres, eofbit, val, before, eres, sret, ops, left>>

\* the caller returns with encoders still open: they are destroyed, and the
\* classes declare no destructor
LeaveScope ==
  /\ pc = "building" /\ stack # <<>>
  /\ stack' = <<>> /\ left' = left + Len(stack)
  /\ pc' = "built"
  /\ UNCHANGED <<hasSV, input, src, call, dres, eofbit, val, os, before, eres, sret, ops>>

Next ==
  \/ Decode \/ DecodeStream \/ DecodeView
  \/ Encode \/ EncodeToString \/ EncodeList \/ EncodeDict
  \/ ListEncoder \/ DictEncoder \/ ListAdd \/ DictAdd \/ EncoderEnd \/ LeaveScope

Spec == Init /\ [][Next]_vars

----------------------------------------------------------------------------
(* What the properties speak of *)

\* the specification's error taxonomy, by the message the code throws
ErrorKind(what) ==
  IF what = EndOfString THEN "UnexpectedEndOfInput"
  ELSE IF what \in {ExpectedE, ExpectedColon, ExpectedStringToken, UnexpectedType}
    THEN "UnexpectedToken"
  ELSE IF what = DuplicatedKey THEN "DuplicateDictKey"
  ELSE "none"

\* decimal numerals compared as numbers: without their leading zeros, the
\* longer is the greater, and of two as long the lexicographically greater
RECURSIVE Strip(_)
Strip(d) == IF Len(d) > 1 /\ d[1] = ch_0 THEN Strip(Tail(d)) ELSE d
NumLess(a, b) ==
  LET x == Strip(a)
      y == Strip(b)
  IN  IF Len(x) # Len(y) THEN Len(x) < Len(y) ELSE LexLess(x, y)
MaxNumeral == Dig(<<9,2,2,3,3,7,2,0,3,6,8,5,4,7,7,5,8,0,7>>)
MinNumeral == Dig(<<9,2,2,3,3,7,2,0,3,6,8,5,4,7,7,5,8,0,8>>)

\* the literal's value lies outside [-2^63, 2^63 - 1]
OutOfRange(neg, d) ==
  d # <<>> /\ NumLess(IF neg THEN MinNumeral ELSE MaxNumeral, d)

\* 'i' '-'? digit+ 'e' in minimal form: a digit, no leading zero, no -0
Canonical(neg, d) == d # <<>> /\ (d[1] = ch_0 => Len(d) = 1 /\ ~neg)

\* the value of a numeral is at most a small n
RECURSIVE NumeralValue(_)
NumeralValue(d) == IF d = <<>> THEN 0 ELSE NumeralValue(SubSeq(d, 1, Len(d) - 1)) * 10 + (d[Len(d)] - ch_0)
AtMost(d, n) == Len(Strip(d)) <= 3 /\ NumeralValue(Strip(d)) <= n

\* the keys that some dict of a token tree holds twice
RECURSIVE DupKeys(_)
DupKeys(w) ==
  IF w.t = "list" THEN UNION {DupKeys(w.items[j]) : j \in 1..Len(w.items)}
  ELSE IF w.t = "dict" THEN
    {w.entries[j][1] : j \in {j \in 1..Len(w.entries) :
                                \E h \in 1..(j - 1) : w.entries[h][1] = w.entries[j][1]}}
    \cup UNION {DupKeys(w.entries[j][2]) : j \in 1..Len(w.entries)}
  ELSE {}

\* every dict of a returned tree has one entry per key
RECURSIVE UniqueKeys(_)
UniqueKeys(v) ==
  IF v.t = "list" THEN \A j \in 1..Len(v.items) : UniqueKeys(v.items[j])
  ELSE IF v.t \in {"dict", "dict_view"} THEN
    /\ \A h, j \in 1..Len(v.entries) : h # j => v.entries[h][1] # v.entries[j][1]
    /\ \A j \in 1..Len(v.entries) : UniqueKeys(v.entries[j][2])
  ELSE TRUE

\* some node of the value holds none of Integer, ByteString, List, Dict
RECURSIVE UnknownTag(_)
UnknownTag(v) ==
  IF v.t = "list" THEN \E j \in 1..Len(v.items) : UnknownTag(v.items[j])
  ELSE IF v.t \in {"dict", "dict_view"} THEN \E j \in 1..Len(v.entries) : UnknownTag(v.entries[j][2])
  ELSE v.t \notin {"integer", "string", "string_view"}

Decoded == pc = "decoded"
Failed_ == dres.st \notin {"none", "return"}
EncodeEnded == pc \in {"encoded", "reencoded", "returned", "built"} /\ eres.st # "none"

----------------------------------------------------------------------------
(* The properties *)

\* C1.  Round trip: a value of the data model (dict keys unique, any signed
\* 64-bit integer, any byte string), encoded and then decoded in copy mode,
\* comes back: the decode returns, its cursor is at the end of the encoding,
\* and the tree equals the value.
RoundTrip ==
  (Decoded /\ src.k = "sink" /\ call \in {"decode", "decode_stream"} /\ val \in Values)
    => dres.st = "return" /\ dres.pos = Len(input) + 1 /\ dres.val = val

\* C2.  No silent overwrite: an input in which some dict holds a key twice
\* fails with the duplicate-key error carrying a key held twice, in copy and
\* in view mode; and every dict a decode returns has one entry per key.
NoSilentOverwrite ==
  /\ (Decoded /\ src.k = "wire" /\ DupKeys(src.w) # {})
       => /\ dres.st = "invalid_argument"
          /\ ErrorKind(dres.what) = "DuplicateDictKey"
          /\ dres.key \in DupKeys(src.w)
  /\ (Decoded /\ dres.st = "return") => UniqueKeys(dres.val)

\* C3.  Integer overflow: an integer literal whose value lies outside the
\* signed 64-bit range fails with IntegerOverflow.
OverflowDetected ==
  (Decoded /\ src.k = "int" /\ OutOfRange(src.neg, src.digits))
    => dres.st = "invalid_argument" /\ ErrorKind(dres.what) = "IntegerOverflow"

\* C4.  Malformed integer literals are rejected: a literal with no digit, with
\* a 0 followed by more digits, or -0, makes decode fail; an Integer is
\* returned only for a literal in minimal form.
MalformedIntegerRejected ==
  (Decoded /\ src.k = "int" /\ ~Canonical(src.neg, src.digits)) => dres.st = "invalid_argument"

\* C5.  A string token digit+ ':' rest of declared length N yields the first N
\* bytes of rest with the cursor right after them when rest has N bytes, and
\* fails with UnexpectedEndOfInput when it has fewer, however large N is and
\* in all three readers.
ExactLength ==
  (Decoded /\ src.k = "str") =>
    IF AtMost(src.digits, Len(src.rest))
      THEN /\ dres.st = "return"
           /\ dres.val.t \in {"string", "string_view"}
           /\ dres.val.s = SubSeq(src.rest, 1, NumeralValue(Strip(src.digits)))
           /\ dres.pos = Len(src.digits) + 2 + NumeralValue(Strip(src.digits))
      ELSE dres.st = "invalid_argument" /\ ErrorKind(dres.what) = "UnexpectedEndOfInput"

\* C6.  Premature exhaustion: an encoding cut short (after at least one byte,
\* before its last) fails with UnexpectedEndOfInput, and the decoder reads no
\* byte at or beyond the end of the input.
TruncationIsError ==
  (Decoded /\ src.k = "cut")
    => /\ dres.st = "invalid_argument"
       /\ ErrorKind(dres.what) = "UnexpectedEndOfInput"
       /\ ~dres.oob

\* C7.  Top-level dispatch: decode returns the empty any, consuming nothing,
\* exactly when the input is empty; a first byte other than 'i', 'l', 'd' or
\* a digit fails with "unexpected type" at that byte; and a decode of a
\* non-empty input that returns, returns the kind its first byte selects.
FirstByteKinds(b) ==
  IF b = ch_i THEN {"integer"}
  ELSE IF b = ch_l THEN {"list"}
  ELSE IF b = ch_d THEN {"dict", "dict_view"}
  ELSE IF isdigit(b) THEN {"string", "string_view"}
  ELSE {}

TopLevelDispatch ==
  Decoded =>
    IF input = <<>>
      THEN dres.st = "return" /\ dres.val = EmptyAny /\ dres.pos = 1
      ELSE /\ ~(dres.st = "return" /\ dres.val = EmptyAny)
           /\ FirstByteKinds(input[1]) = {}
                => /\ dres.st = "invalid_argument"
                   /\ ErrorKind(dres.what) = "UnexpectedToken"
                   /\ dres.pos = 1
           /\ dres.st = "return" => dres.val.t \in FirstByteKinds(input[1])

\* C7's cases reached: the empty input answered with the empty any, a
\* stray first byte refused, and a value returned
EmptyInputDecoded == Decoded /\ input = <<>> /\ dres.val = EmptyAny
StrayByteRefused ==
  Decoded /\ input # <<>> /\ FirstByteKinds(input[1]) = {} /\ dres.what = UnexpectedType
DictViewReturned == Decoded /\ call = "decode_view" /\ dres.st = "return" /\ dres.val.t = "dict_view"

\* C8.  Guaranteed close: no list_encoder or dict_encoder leaves its scope
\* without its terminator having been written.
TerminatorAlwaysWritten == left = 0

\* C9.  Encode dispatch: encode fails with InvalidType exactly when the value
\* or a child holds none of the four kinds (a byte string or dict owned or
\* borrowed); in particular the tree a decode or decode_view of a non-empty
\* input returned encodes.
EncodeDispatch ==
  /\ (pc \in {"encoded", "reencoded", "returned"})
       => (eres.st = "invalid_argument" <=> UnknownTag(val))
  /\ (pc = "reencoded" /\ input # <<>>) => eres.st = "return"

\* C10.  No partial result: a failed encode leaves the sink as it was before
\* the call, and a failed decode returns no value.
NoPartialResult ==
  /\ (EncodeEnded /\ eres.st = "invalid_argument") => os = before
  /\ (Decoded /\ Failed_) => dres.val = NoVal

----------------------------------------------------------------------------
(* What does hold of the properties above that fail *)

\* C1, C2 without the overflow: a decode that does not trap
RoundTripUnlessTrapped ==
  (Decoded /\ src.k = "sink" /\ call \in {"decode", "decode_stream"} /\ val \in Values)
    => \/ dres.st = "trap"
       \/ dres.st = "return" /\ dres.pos = Len(input) + 1 /\ dres.val = val
DuplicateReportedUnlessTrapped ==
  (Decoded /\ src.k = "wire" /\ DupKeys(src.w) # {})
    => \/ dres.st = "trap"
       \/ /\ dres.st = "invalid_argument"
          /\ ErrorKind(dres.what) = "DuplicateDictKey"
          /\ dres.key \in DupKeys(src.w)

\* C6 without the read past the end: every cut but one after an 'i', in a
\* decode that does not trap
TruncationIsErrorAfterI ==
  (Decoded /\ src.k = "cut" /\ input[Len(input)] # ch_i)
    => \/ dres.st = "trap"
       \/ dres.st = "invalid_argument" /\ ErrorKind(dres.what) = "UnexpectedEndOfInput" /\ ~dres.oob

\* C8, C10 on success: an encode that returns wrote every terminator
ClosedOnReturn == (EncodeEnded /\ pc # "built" /\ eres.st = "return") => left = 0

\* C9 in a build with BENCODE_HAS_STRING_VIEW
EncodeDispatchWithStringView == hasSV => EncodeDispatch

====
